---- MODULE Spec2Model ----
(***************************************************************************)
(* Leaf-splitting simulation (leaf_splitting_sim.py): simulate() as a      *)
(* state machine over the occupancy histogram, the four split policies,    *)
(* the statistics counters and the process-global random generator.        *)
(***************************************************************************)
EXTENDS Integers, Sequences, FiniteSets, TLC

\* ------------------------------------------------------------------ bounds
MaxB == 5
MaxR == 4
MaxT == 8

\* A result list of a terminating policy call never reaches this length
\* (for B >= 2 every returned occupancy is >= 1 and they sum to at most
\* (B - 1) + r); it only stops the exploration of a loop that never ends.
MaxBlocks == MaxB + MaxR + 1

Methods == {"deferred", "immediately", "adaptive", "adaptive2"}
MethodStrings == Methods \cup {"bogus"}
Roundings == {"floor", "ceil", "nearest"}
\* p in (0,1) as <<numerator, denominator>>; dyadic values, for which the
\* float product p * n of the source is exact.
PSet == {<<1, 4>>, <<1, 2>>, <<3, 4>>}

\* ------------------------------------------------------------ arithmetic
Max(a, b) == IF a >= b THEN a ELSE b
Min(a, b) == IF a <= b THEN a ELSE b

\* math.floor(num / den), den > 0
floor(num, den) == num \div den
\* math.ceil(num / den), den > 0
ceil(num, den) == -((-num) \div den)
\* Python's round(): to nearest, ties to the even integer
round(num, den) ==
    LET q == num \div den
        rem == num % den
    IN  IF 2 * rem < den THEN q
        ELSE IF 2 * rem > den THEN q + 1
        ELSE IF q % 2 = 0 THEN q ELSE q + 1

\* The sum of a list of occupancies (used to state the claims).
RECURSIVE SeqSum(_)
SeqSum(s) == IF s = <<>> THEN 0 ELSE Head(s) + SeqSum(Tail(s))

\* ------------------------------------------------------------ split_size
split_size_drop(n, p, rounding) ==
    LET raw_num == p[1] * n
        k0 == IF rounding = "floor" THEN floor(raw_num, p[2])
              ELSE IF rounding = "ceil" THEN ceil(raw_num, p[2])
              ELSE round(raw_num, p[2])
        k == Max(1, Min(n - 1, k0))
    IN  <<k, n - k - 1>>

split_size_noclamp(n, p, rounding) ==
    LET raw_num == p[1] * n
        k == IF rounding = "floor" THEN floor(raw_num, p[2])
             ELSE IF rounding = "ceil" THEN ceil(raw_num, p[2])
             ELSE round(raw_num, p[2])
    IN  <<k, n - k>>

split_size(n, p, rounding) ==
    LET raw_num == p[1] * n
        k0 == IF rounding = "floor" THEN floor(raw_num, p[2])
              ELSE IF rounding = "ceil" THEN ceil(raw_num, p[2])
              ELSE round(raw_num, p[2])
        k == Max(1, Min(n - 1, k0))
    IN  <<k, n - k>>

\* ------------------------------------------------- histogram (size_counts)
\* The dict size_counts as the sequence of its <<size, count>> items in
\* insertion order, which is the order the source iterates it in.
dict_keys(sc) == {sc[i][1] : i \in 1..Len(sc)}

dict_get(sc, size) ==
    IF size \in dict_keys(sc)
    THEN LET i == CHOOSE j \in 1..Len(sc) : sc[j][1] = size IN sc[i][2]
    ELSE 0

\* sum(count * size for size, count in size_counts.items())
RECURSIVE total_weight(_)
total_weight(sc) ==
    IF sc = <<>> THEN 0 ELSE Head(sc)[1] * Head(sc)[2] + total_weight(Tail(sc))

\* sum(size_counts.values())
RECURSIVE num_blocks_of(_)
num_blocks_of(sc) ==
    IF sc = <<>> THEN 0 ELSE Head(sc)[2] + num_blocks_of(Tail(sc))

RECURSIVE max_key(_)
max_key(sc) ==
    IF Len(sc) = 1 THEN sc[1][1] ELSE Max(Head(sc)[1], max_key(Tail(sc)))

\* size_counts[old_size] -= 1; del size_counts[old_size] when it reaches 0
remove_block(sc, old_size) ==
    LET dec == [i \in 1..Len(sc) |->
                   IF sc[i][1] = old_size THEN <<sc[i][1], sc[i][2] - 1>> ELSE sc[i]]
    IN  SelectSeq(dec, LAMBDA e : ~(e[1] = old_size /\ e[2] = 0))

\* The merge with the count of a returned size set to 1.
add_block_reset(sc, size) ==
    IF size \in dict_keys(sc)
    THEN [i \in 1..Len(sc) |->
             IF sc[i][1] = size THEN <<sc[i][1], 1>> ELSE sc[i]]
    ELSE Append(sc, <<size, 1>>)

\* size_counts[size] = size_counts.get(size, 0) + 1
add_block(sc, size) ==
    IF size \in dict_keys(sc)
    THEN [i \in 1..Len(sc) |->
             IF sc[i][1] = size THEN <<sc[i][1], sc[i][2] + 1>> ELSE sc[i]]
    ELSE Append(sc, <<size, 1>>)

\* for size in new_blocks: size_counts[size] = size_counts.get(size, 0) + 1
RECURSIVE add_blocks(_, _)
add_blocks(sc, new_blocks) ==
    IF new_blocks = <<>> THEN sc
    ELSE add_blocks(add_block(sc, Head(new_blocks)), Tail(new_blocks))

\* ----------------------------------------------------------- sample_block
\* The number of values the one random call of sample_block can return:
\* random.choice(sizes) when the total weight is 0, otherwise
\* random.randint(0, total_weight - 1).
draw_range(sc) == IF total_weight(sc) = 0 THEN Len(sc) ELSE total_weight(sc)

\* The walk with the class boundary tested by <=.
RECURSIVE sample_walk_le(_, _, _, _)
sample_walk_le(sc, i, cumsum0, rand_val) ==
    IF i > Len(sc)
    THEN <<max_key(sc), max_key(sc) \div 2>>
    ELSE LET size == sc[i][1]
             count == sc[i][2]
             cumsum == cumsum0 + count * size
         IN  IF rand_val <= cumsum
             THEN LET within_class == rand_val - (cumsum - count * size)
                  IN  <<size, IF size > 0 THEN within_class % size ELSE 0>>
             ELSE sample_walk_le(sc, i + 1, cumsum, rand_val)

\* The cumulative walk over size_counts.items() from item i on.
RECURSIVE sample_walk(_, _, _, _)
sample_walk(sc, i, cumsum0, rand_val) ==
    IF i > Len(sc)
    THEN <<max_key(sc), max_key(sc) \div 2>>
    ELSE LET size == sc[i][1]
             count == sc[i][2]
             cumsum == cumsum0 + count * size
         IN  IF rand_val < cumsum
             THEN LET within_class == rand_val - (cumsum - count * size)
                  IN  <<size, IF size > 0 THEN within_class % size ELSE 0>>
             ELSE sample_walk(sc, i + 1, cumsum, rand_val)

sample_block_nomod(sc, draw) ==
    IF total_weight(sc) = 0
    THEN <<sc[draw + 1][1], 0>>
    ELSE <<sample_walk(sc, 1, 0, draw)[1], draw>>

\* sample_block() for the value `draw` of its random call.
sample_block(sc, draw) ==
    IF total_weight(sc) = 0
    THEN <<sc[draw + 1][1], 0>>
    ELSE sample_walk(sc, 1, 0, draw)

\* ---------------------------------------------------------------- policies
\* The locals of a policy call. blocks_to_split is used by insert_deferred,
\* current_pos by the three position-sensitive policies; done marks that the
\* call has reached its return.
NoLoc ==
    [current_size |-> 0, current_pos |-> 0, elements_remaining |-> 0,
     resulting_blocks |-> <<>>, num_splits |-> 0, blocks_to_split |-> <<>>,
     done |-> FALSE]

\* insert_deferred up to its loop: new_size < B returns at once.
insert_deferred_enter(block_size, batch_size, B) ==
    LET new_size == block_size + batch_size
    IN  IF new_size < B
        THEN [NoLoc EXCEPT !.resulting_blocks = <<new_size>>, !.done = TRUE]
        ELSE [NoLoc EXCEPT !.blocks_to_split = <<new_size>>]

\* The same with a child queued only when it is larger than B.
insert_deferred_iter_gt(l, B, p, rounding) ==
    IF l.blocks_to_split = <<>>
    THEN [l EXCEPT !.done = TRUE]
    ELSE LET current_size == Head(l.blocks_to_split)
             rest == Tail(l.blocks_to_split)
         IN  IF current_size < B
             THEN [l EXCEPT !.current_size = current_size,
                            !.blocks_to_split = rest,
                            !.resulting_blocks = Append(@, current_size)]
             ELSE LET ss == split_size(current_size, p, rounding)
                      left_size == ss[1]
                      right_size == ss[2]
                      q1 == IF left_size > B THEN Append(rest, left_size) ELSE rest
                      r1 == IF left_size > B THEN l.resulting_blocks
                            ELSE Append(l.resulting_blocks, left_size)
                      q2 == IF right_size > B THEN Append(q1, right_size) ELSE q1
                      r2 == IF right_size > B THEN r1 ELSE Append(r1, right_size)
                  IN  [l EXCEPT !.current_size = current_size,
                                !.num_splits = @ + 1,
                                !.blocks_to_split = q2,
                                !.resulting_blocks = r2]

\* One iteration of `while blocks_to_split`, and the return when it is empty.
insert_deferred_iter(l, B, p, rounding) ==
    IF l.blocks_to_split = <<>>
    THEN [l EXCEPT !.done = TRUE]
    ELSE LET current_size == Head(l.blocks_to_split)
             rest == Tail(l.blocks_to_split)
         IN  IF current_size < B
             THEN [l EXCEPT !.current_size = current_size,
                            !.blocks_to_split = rest,
                            !.resulting_blocks = Append(@, current_size)]
             ELSE LET ss == split_size(current_size, p, rounding)
                      left_size == ss[1]
                      right_size == ss[2]
                      q1 == IF left_size >= B THEN Append(rest, left_size) ELSE rest
                      r1 == IF left_size >= B THEN l.resulting_blocks
                            ELSE Append(l.resulting_blocks, left_size)
                      q2 == IF right_size >= B THEN Append(q1, right_size) ELSE q1
                      r2 == IF right_size >= B THEN r1 ELSE Append(r1, right_size)
                  IN  [l EXCEPT !.current_size = current_size,
                                !.num_splits = @ + 1,
                                !.blocks_to_split = q2,
                                !.resulting_blocks = r2]

\* The locals at the top of `while True` of the position-sensitive policies.
insert_positional_enter(block_size, insert_pos, batch_size) ==
    [NoLoc EXCEPT !.current_size = block_size, !.current_pos = insert_pos,
                  !.elements_remaining = batch_size]

\* insert_end_pos as all three branches of the loop body compute it.
insert_end_pos_of(l, B) == l.current_pos + (B - l.current_size)

\* The iteration with the cursor kept in the full block's coordinates when
\* the insertion continues in the right child.
positional_iter_abs(l, B, lr) ==
    LET space_available == B - l.current_size
        insert_end_pos == l.current_pos + space_available
        left_size == lr[1]
        right_size == lr[2]
    IN  IF l.elements_remaining < space_available
        THEN [l EXCEPT !.current_size = @ + l.elements_remaining,
                       !.resulting_blocks = Append(@, l.current_size + l.elements_remaining),
                       !.done = TRUE]
        ELSE IF l.elements_remaining = space_available
        THEN IF insert_end_pos <= left_size
             THEN \* both children are appended and the loop breaks before
                  \* num_splits += 1
                  [l EXCEPT !.current_size = B,
                            !.elements_remaining = 0,
                            !.resulting_blocks = @ \o <<left_size, right_size>>,
                            !.done = TRUE]
             ELSE [l EXCEPT !.elements_remaining = 0,
                            !.resulting_blocks = Append(@, left_size),
                            !.current_size = right_size,
                            !.current_pos = insert_end_pos,
                            !.num_splits = @ + 1]
        ELSE IF insert_end_pos <= left_size
             THEN [l EXCEPT !.elements_remaining = @ - space_available,
                            !.resulting_blocks = Append(@, right_size),
                            !.current_size = left_size,
                            !.current_pos = insert_end_pos,
                            !.num_splits = @ + 1]
             ELSE [l EXCEPT !.elements_remaining = @ - space_available,
                            !.resulting_blocks = Append(@, left_size),
                            !.current_size = right_size,
                            !.current_pos = insert_end_pos,
                            !.num_splits = @ + 1]

\* One iteration of `while True`, shared by insert_immediately,
\* insert_adaptive and insert_adaptive2, which differ only in how the two
\* child sizes <<left_size, right_size>> of the full block are chosen.
positional_iter(l, B, lr) ==
    LET space_available == B - l.current_size
        insert_end_pos == l.current_pos + space_available
        left_size == lr[1]
        right_size == lr[2]
    IN  IF l.elements_remaining < space_available
        THEN [l EXCEPT !.current_size = @ + l.elements_remaining,
                       !.resulting_blocks = Append(@, l.current_size + l.elements_remaining),
                       !.done = TRUE]
        ELSE IF l.elements_remaining = space_available
        THEN IF insert_end_pos <= left_size
             THEN \* both children are appended and the loop breaks before
                  \* num_splits += 1
                  [l EXCEPT !.current_size = B,
                            !.elements_remaining = 0,
                            !.resulting_blocks = @ \o <<left_size, right_size>>,
                            !.done = TRUE]
             ELSE [l EXCEPT !.elements_remaining = 0,
                            !.resulting_blocks = Append(@, left_size),
                            !.current_size = right_size,
                            !.current_pos = insert_end_pos - left_size,
                            !.num_splits = @ + 1]
        ELSE IF insert_end_pos <= left_size
             THEN [l EXCEPT !.elements_remaining = @ - space_available,
                            !.resulting_blocks = Append(@, right_size),
                            !.current_size = left_size,
                            !.current_pos = insert_end_pos,
                            !.num_splits = @ + 1]
             ELSE [l EXCEPT !.elements_remaining = @ - space_available,
                            !.resulting_blocks = Append(@, left_size),
                            !.current_size = right_size,
                            !.current_pos = insert_end_pos - left_size,
                            !.num_splits = @ + 1]

\* The same with the two children exchanged.
insert_immediately_iter_swap(l, B, p, rounding) ==
    positional_iter(l, B, <<split_size(B, p, rounding)[2], split_size(B, p, rounding)[1]>>)

\* insert_immediately: the children are split_size(B).
insert_immediately_iter(l, B, p, rounding) ==
    positional_iter(l, B, split_size(B, p, rounding))

\* p_split = max(1, min(current_size - 1, int(math.floor(p * current_size))))
p_split_of(current_size, p) ==
    Max(1, Min(current_size - 1, floor(p[1] * current_size, p[2])))

\* <<left_size, right_size>> as insert_adaptive chooses them for the block
\* that has just been filled to B: split at p when the insertion ends before
\* p_split, otherwise at 1 - p.
adaptive_split(l, B, p) ==
    LET p_split == p_split_of(B, p)
    IN  IF insert_end_pos_of(l, B) < p_split
        THEN <<p_split, B - p_split>>
        ELSE <<B - p_split, p_split>>

\* insert_adaptive: one iteration of its loop.
insert_adaptive_iter(l, B, p, rounding) ==
    positional_iter(l, B, adaptive_split(l, B, p))

\* The same choice with the block's size taken before it is filled.
adaptive2_split_cur(l, B, p) ==
    LET p_split == p_split_of(l.current_size, p)
        one_minus_p_pos == B - p_split
    IN  IF insert_end_pos_of(l, B) > one_minus_p_pos
        THEN <<one_minus_p_pos, p_split>>
        ELSE <<p_split, one_minus_p_pos>>

\* <<left_size, right_size>> as insert_adaptive2 chooses them: split at 1 - p
\* when the insertion ends after one_minus_p_pos, otherwise at p.
adaptive2_split(l, B, p) ==
    LET p_split == p_split_of(B, p)
        one_minus_p_pos == B - p_split
    IN  IF insert_end_pos_of(l, B) > one_minus_p_pos
        THEN <<one_minus_p_pos, p_split>>
        ELSE <<p_split, one_minus_p_pos>>

\* insert_adaptive2: one iteration of its loop.
insert_adaptive2_iter(l, B, p, rounding) ==
    positional_iter(l, B, adaptive2_split(l, B, p))

\* The dispatch of simulate()'s loop body on the method string: the locals of
\* the selected policy at its entry.
policy_enter(method, old_size, insert_pos, r, B) ==
    IF method = "deferred" THEN insert_deferred_enter(old_size, r, B)
    ELSE insert_positional_enter(old_size, insert_pos, r)

\* One loop iteration of the selected policy.
policy_iter(method, l, B, p, rounding) ==
    IF method = "deferred" THEN insert_deferred_iter(l, B, p, rounding)
    ELSE IF method = "adaptive" THEN insert_adaptive_iter(l, B, p, rounding)
    ELSE IF method = "adaptive2" THEN insert_adaptive2_iter(l, B, p, rounding)
    ELSE insert_immediately_iter(l, B, p, rounding)

\* ------------------------------------------------------------- simulate()
\* Stats() as the dataclass constructs it.
Stats ==
    [inserts |-> 0, splits |-> 0, moves |-> 0, blocks_tally |-> 0,
     elem_tally |-> 0, capacity_tally |-> 0]

NoResult ==
    [returned |-> FALSE, final_blocks |-> 0, final_fullness |-> <<0, 1>>,
     time_avg_fullness |-> <<0, 1>>, total_insertions |-> 0, high_count |-> 0,
     inserts |-> 0, splits |-> 0]

\* seed=None
NoSeed == [given |-> FALSE, value |-> 0]

\* One call of simulate() before its first statement. pc is the position in
\* simulate(): "call", "loop" (head of the batch loop), "remove" (a block is
\* sampled), "policy" (inside the policy call), "done" (returned), "failed"
\* (an exception left simulate()).
run_idle(args) ==
    [args |-> args, pc |-> "call", err |-> "none", num_batches |-> 0, n |-> 0,
     size_counts |-> <<>>, total_keys |-> 0, stats |-> Stats, batch_idx |-> 0,
     old_size |-> 0, insert_pos |-> 0, loc |-> NoLoc, result |-> NoResult]

\* assert r >= 1, then the initial histogram {0: 1} and the counters.
prologue_ceil(s) ==
    IF ~(s.args.r >= 1)
    THEN [s EXCEPT !.pc = "failed", !.err = "AssertionError"]
    ELSE [s EXCEPT !.pc = "loop",
                   !.num_batches = ceil(s.args.total_insertions, s.args.r),
                   !.n = ceil(s.args.total_insertions, s.args.r) * s.args.r,
                   !.size_counts = <<<<0, 1>>>>,
                   !.total_keys = 0,
                   !.stats = Stats]

prologue(s) ==
    IF ~(s.args.r >= 1)
    THEN [s EXCEPT !.pc = "failed", !.err = "AssertionError"]
    ELSE [s EXCEPT !.pc = "loop",
                   !.num_batches = s.args.total_insertions \div s.args.r,
                   !.n = (s.args.total_insertions \div s.args.r) * s.args.r,
                   !.size_counts = <<<<0, 1>>>>,
                   !.total_keys = 0,
                   !.stats = Stats]

\* old_size, insert_pos = sample_block()
sample_step(s, draw) ==
    LET sb == sample_block(s.size_counts, draw)
    IN  [s EXCEPT !.old_size = sb[1], !.insert_pos = sb[2], !.pc = "remove"]

\* Remove the sampled block from the histogram, then dispatch on the method:
\* an unknown method raises ValueError here, inside the loop body.
remove_step(s) ==
    IF s.args.method \in Methods
    THEN [s EXCEPT !.size_counts = remove_block(s.size_counts, s.old_size),
                   !.loc = policy_enter(s.args.method, s.old_size, s.insert_pos,
                                        s.args.r, s.args.B),
                   !.pc = "policy"]
    ELSE [s EXCEPT !.size_counts = remove_block(s.size_counts, s.old_size),
                   !.pc = "failed", !.err = "ValueError"]

\* The locals of a policy loop as the model stores them. A loop that never
\* reaches its return appends to resulting_blocks and increments num_splits
\* without bound; the model keeps the first MaxBlocks entries of the list and
\* the counter modulo MaxBlocks + 1, so that such a loop is a cycle of states.
\* A call that returns never has more than MaxBlocks entries.
loop_window(l) ==
    IF Len(l.resulting_blocks) <= MaxBlocks THEN l
    ELSE [l EXCEPT !.resulting_blocks = SubSeq(@, 1, MaxBlocks),
                   !.num_splits = @ % (MaxBlocks + 1)]

\* One loop iteration of the policy the call is in.
iter_step(s) ==
    [s EXCEPT !.loc = loop_window(policy_iter(s.args.method, s.loc, s.args.B,
                                              s.args.p, s.args.rounding))]

\* The same with elem_tally updated before total_keys is.
merge_step_stale(s) ==
    LET sc == add_blocks(s.size_counts, s.loc.resulting_blocks)
        num_blocks == num_blocks_of(sc)
        total_keys == s.total_keys + s.args.r
    IN  [s EXCEPT !.size_counts = sc,
                  !.total_keys = total_keys,
                  !.stats = [@ EXCEPT !.inserts = @ + s.args.r,
                                      !.splits = @ + s.loc.num_splits,
                                      !.blocks_tally = @ + num_blocks * s.args.r,
                                      !.elem_tally = @ + s.total_keys * s.args.r,
                                      !.capacity_tally = @ + s.args.B * num_blocks * s.args.r],
                  !.batch_idx = @ + 1,
                  !.pc = "loop"]

\* The policy has returned (new_blocks, num_splits): add the resulting blocks
\* to the histogram and update the stats.
merge_step_nocap(s) ==
    LET sc == add_blocks(s.size_counts, s.loc.resulting_blocks)
        num_blocks == num_blocks_of(sc)
        total_keys == s.total_keys + s.args.r
    IN  [s EXCEPT !.size_counts = sc,
                  !.total_keys = total_keys,
                  !.stats = [@ EXCEPT !.inserts = @ + s.args.r,
                                      !.splits = @ + s.loc.num_splits,
                                      !.blocks_tally = @ + num_blocks * s.args.r,
                                      !.elem_tally = @ + total_keys * s.args.r,
                                      !.capacity_tally = @ + num_blocks * s.args.r],
                  !.batch_idx = @ + 1,
                  !.pc = "loop"]

merge_step(s) ==
    LET sc == add_blocks(s.size_counts, s.loc.resulting_blocks)
        num_blocks == num_blocks_of(sc)
        total_keys == s.total_keys + s.args.r
    IN  [s EXCEPT !.size_counts = sc,
                  !.total_keys = total_keys,
                  !.stats = [@ EXCEPT !.inserts = @ + s.args.r,
                                      !.splits = @ + s.loc.num_splits,
                                      !.blocks_tally = @ + num_blocks * s.args.r,
                                      !.elem_tally = @ + total_keys * s.args.r,
                                      !.capacity_tally = @ + s.args.B * num_blocks * s.args.r],
                  !.batch_idx = @ + 1,
                  !.pc = "loop"]

\* sum(count for size, count in size_counts.items() if size > B - r)
RECURSIVE high_count_of(_, _)
high_count_of(sc, threshold) ==
    IF sc = <<>> THEN 0
    ELSE (IF Head(sc)[1] > threshold THEN Head(sc)[2] ELSE 0)
         + high_count_of(Tail(sc), threshold)

\* The final statistics and the returned record; every quotient x / y is the
\* pair <<x, y>>, and the literal 0.0 is <<0, 1>>.
finish_step(s) ==
    LET final_blocks == num_blocks_of(s.size_counts)
        final_fullness == IF final_blocks > 0
                          THEN <<s.n, s.args.B * final_blocks>> ELSE <<0, 1>>
        time_avg_fullness == IF s.stats.capacity_tally > 0
                             THEN <<s.stats.elem_tally, s.stats.capacity_tally>>
                             ELSE <<0, 1>>
    IN  [s EXCEPT !.pc = "done",
                  !.result = [returned |-> TRUE,
                              final_blocks |-> final_blocks,
                              final_fullness |-> final_fullness,
                              time_avg_fullness |-> time_avg_fullness,
                              total_insertions |-> s.n,
                              high_count |-> IF s.args.method = "deferred"
                                             THEN high_count_of(s.size_counts,
                                                                s.args.B - s.args.r)
                                             ELSE 0,
                              inserts |-> s.stats.inserts,
                              splits |-> s.stats.splits]]

\* --------------------------------------------- the global random generator
\* The state of the module-level generator of `random`: the stream it was
\* last seeded with (stream 0: the state the process starts with) and the
\* number of values drawn from it since.  Its output is a fixed function of
\* the state, as that of the library's generator is; every draw advances it.
rand_raw(g) == ((g.stream + 2) * (g.pos + 3) * 7 + g.pos * g.pos + g.stream) % 13

\* random.randint(0, bound - 1) / random.choice of `bound` items in state g
rand_below(g, bound) == rand_raw(g) % bound

rand_advance(g) == [g EXCEPT !.pos = @ + 1]

\* if seed is not None: random.seed(seed)
seed_gen_skip(seed, g) == g

seed_gen(seed, g) ==
    IF seed.given THEN [stream |-> seed.value, pos |-> 0] ELSE g

\* The policy call run to its return.
RECURSIVE policy_run(_)
policy_run(s) ==
    IF s.loc.done \/ Len(s.loc.resulting_blocks) >= MaxBlocks THEN s
    ELSE policy_run(iter_step(s))

\* One step of a run against the global generator g, as <<run, generator>>:
\* the prologue with its seeding, one whole batch, or the final statistics.
gen_step(s, g) ==
    IF s.pc = "call"
    THEN <<prologue(s), seed_gen(s.args.seed, g)>>
    ELSE IF s.pc = "loop" /\ s.batch_idx < s.num_batches
    THEN LET sampled == sample_step(s, rand_below(g, draw_range(s.size_counts)))
             removed == remove_step(sampled)
         IN  <<IF removed.pc = "failed" THEN removed
               ELSE merge_step(policy_run(removed)),
               rand_advance(g)>>
    ELSE IF s.pc = "loop"
    THEN <<finish_step(s), g>>
    ELSE <<s, g>>

\* A run executed alone from generator state g.
RECURSIVE run_alone(_, _)
run_alone(s, g) ==
    IF s.pc \in {"done", "failed"} THEN s
    ELSE LET sg == gen_step(s, g) IN run_alone(sg[1], sg[2])

\* ------------------------------------------------ leaf_splitting_sim_slurm
\* Bounds of the sweeps explored: the lengths of seeds, r_list and p_list,
\* and how many task IDs on either side of the array range are also tried.
MaxSeeds == 2
MaxRList == 3
MaxPList == 2
ExtraIds == 2

\* A config key that may be missing, as config.get(key, default) reads it.
NoFlag == [given |-> FALSE, value |-> FALSE]
NoInt == [given |-> FALSE, value |-> 0]
Given(v) == [given |-> TRUE, value |-> v]
config_get(entry, default) == IF entry.given THEN entry.value ELSE default

\* gen_seeds(count): a list of `count` integer seeds; the model takes them
\* distinct.
gen_seeds(count) == [i \in 1..count |-> 10 + i]

\* The largest k with k*k <= n.
isqrt(n) == CHOOSE k \in 0..n : k * k <= n /\ (k + 1) * (k + 1) > n

\* seq[idx] of a Python list: 0-based, negative idx counted from the end.
in_range(seq, idx) == -Len(seq) <= idx /\ idx < Len(seq)
getitem(seq, idx) == IF idx >= 0 THEN seq[idx + 1] ELSE seq[Len(seq) + idx + 1]

\* The state of the sweep before generate_config has run.
NoConfig ==
    [B |-> 0, method |-> "", r_list |-> <<>>, p_list |-> <<>>, seeds |-> <<>>,
     insertion_scale |-> "", base_insertions |-> 0, rounding |-> "",
     batch_by_r |-> NoFlag, batch_by_p |-> NoFlag, total_insertions |-> NoInt]

\* generate_config: the config it writes and the task count it returns; with
\* insertion_scale 'fixed' and total_insertions None the report of the fixed
\* count fails before the file is written.
generate_config(a) ==
    LET batch_by_r == config_get(a.batch_by_r, TRUE)
        batch_by_p == config_get(a.batch_by_p, FALSE)
        seeds == gen_seeds(a.seeds_count)
        config ==
            [B |-> a.B, method |-> a.method, r_list |-> a.r_list,
             p_list |-> a.p_list, seeds |-> seeds,
             insertion_scale |-> a.insertion_scale,
             base_insertions |-> a.base_insertions, rounding |-> a.rounding,
             batch_by_r |-> Given(batch_by_r), batch_by_p |-> Given(batch_by_p),
             total_insertions |->
                 IF a.insertion_scale = "fixed" /\ a.total_insertions.given
                 THEN a.total_insertions ELSE NoInt]
        total_tasks ==
            IF batch_by_r THEN Len(seeds) * Len(a.r_list)
            ELSE IF batch_by_p THEN Len(seeds) * Len(a.p_list)
            ELSE Len(seeds) * Len(a.r_list) * Len(a.p_list)
    IN  IF a.insertion_scale = "fixed" /\ ~a.total_insertions.given
        THEN [err |-> "TypeError", config |-> NoConfig, total_tasks |-> 0]
        ELSE [err |-> "none", config |-> config, total_tasks |-> total_tasks]

\* A config file written by hand and read by the run command: the fields of
\* generate_config's file, with the keys the arguments leave out missing from
\* the file; the array range is the one generate_config computes.
load_config(a) ==
    LET seeds == gen_seeds(a.seeds_count)
        config ==
            [B |-> a.B, method |-> a.method, r_list |-> a.r_list,
             p_list |-> a.p_list, seeds |-> seeds,
             insertion_scale |-> a.insertion_scale,
             base_insertions |-> a.base_insertions, rounding |-> a.rounding,
             batch_by_r |-> a.batch_by_r, batch_by_p |-> a.batch_by_p,
             total_insertions |->
                 IF a.insertion_scale = "fixed" THEN a.total_insertions ELSE NoInt]
        total_tasks ==
            IF config_get(a.batch_by_r, TRUE) THEN Len(seeds) * Len(a.r_list)
            ELSE IF config_get(a.batch_by_p, FALSE) THEN Len(seeds) * Len(a.p_list)
            ELSE Len(seeds) * Len(a.r_list) * Len(a.p_list)
    IN  [err |-> "none", config |-> config, total_tasks |-> total_tasks]

\* total_ins for batch size r under the config's insertion_scale.
total_ins_of(config, r) ==
    IF config.insertion_scale = "sqrt"
    THEN config.base_insertions
           + isqrt(config.base_insertions * config.base_insertions * r)
    ELSE IF config.insertion_scale = "linear"
    THEN r * config.base_insertions
    ELSE IF config.total_insertions.given /\ config.total_insertions.value # 0
         THEN config.total_insertions.value
         ELSE config.base_insertions

\* What a task returns: the error raised, or the result rows, one per call of
\* simulate(), each row carrying the arguments of its call.
raised(err) == [err |-> err, shape |-> "none", rows |-> <<>>]
one_row(task_id, config, seed_idx, r_idx, p_idx) ==
    [task_id |-> task_id, seed_idx |-> seed_idx, r_idx |-> r_idx, p_idx |-> p_idx,
     B |-> config.B, method |-> config.method,
     r |-> getitem(config.r_list, r_idx), p |-> getitem(config.p_list, p_idx),
     seed |-> getitem(config.seeds, seed_idx),
     total_insertions |-> total_ins_of(config, getitem(config.r_list, r_idx))]

\* The same with a strict range test.
run_task_single_combination_gt(task_id, config) ==
    LET total_r == Len(config.r_list)
        total_p == Len(config.p_list)
        seed_idx == task_id \div (total_r * total_p)
        remainder == task_id % (total_r * total_p)
        r_idx == remainder \div total_p
        p_idx == remainder % total_p
    IN  IF seed_idx > Len(config.seeds) THEN raised("ValueError")
        ELSE IF ~in_range(config.seeds, seed_idx) THEN raised("IndexError")
        ELSE [err |-> "none", shape |-> "dict",
              rows |-> <<one_row(task_id, config, seed_idx, r_idx, p_idx)>>]

run_task_single_combination(task_id, config) ==
    LET total_r == Len(config.r_list)
        total_p == Len(config.p_list)
        seed_idx == task_id \div (total_r * total_p)
        remainder == task_id % (total_r * total_p)
        r_idx == remainder \div total_p
        p_idx == remainder % total_p
    IN  IF seed_idx >= Len(config.seeds) THEN raised("ValueError")
        ELSE IF ~in_range(config.seeds, seed_idx) THEN raised("IndexError")
        ELSE [err |-> "none", shape |-> "dict",
              rows |-> <<one_row(task_id, config, seed_idx, r_idx, p_idx)>>]

run_task_batch_by_r(task_id, config) ==
    LET total_r == Len(config.r_list)
        seed_idx == task_id \div total_r
        r_idx == task_id % total_r
    IN  IF seed_idx >= Len(config.seeds) THEN raised("ValueError")
        ELSE IF ~in_range(config.seeds, seed_idx) THEN raised("IndexError")
        ELSE [err |-> "none", shape |-> "list",
              rows |-> [i \in 1..Len(config.p_list) |->
                           one_row(task_id, config, seed_idx, r_idx, i - 1)]]

\* The same decoded with the length of r_list.
run_task_batch_by_p_total_r(task_id, config) ==
    LET total_p == Len(config.r_list)
        seed_idx == task_id \div total_p
        p_idx == task_id % total_p
    IN  IF seed_idx >= Len(config.seeds) THEN raised("ValueError")
        ELSE IF ~in_range(config.seeds, seed_idx) THEN raised("IndexError")
        ELSE IF ~in_range(config.p_list, p_idx) THEN raised("IndexError")
        ELSE [err |-> "none", shape |-> "list",
              rows |-> [i \in 1..Len(config.r_list) |->
                           one_row(task_id, config, seed_idx, i - 1, p_idx)]]

run_task_batch_by_p(task_id, config) ==
    LET total_p == Len(config.p_list)
        seed_idx == task_id \div total_p
        p_idx == task_id % total_p
    IN  IF seed_idx >= Len(config.seeds) THEN raised("ValueError")
        ELSE IF ~in_range(config.seeds, seed_idx) THEN raised("IndexError")
        ELSE [err |-> "none", shape |-> "list",
              rows |-> [i \in 1..Len(config.r_list) |->
                           one_row(task_id, config, seed_idx, i - 1, p_idx)]]

\* The decoder run_single_task dispatches to.
mode_of(config) ==
    IF config_get(config.batch_by_r, TRUE) THEN "batch_by_r"
    ELSE IF config_get(config.batch_by_p, FALSE) THEN "batch_by_p"
    ELSE "single"

run_single_task(task_id, config) ==
    IF mode_of(config) = "batch_by_r" THEN run_task_batch_by_r(task_id, config)
    ELSE IF mode_of(config) = "batch_by_p" THEN run_task_batch_by_p(task_id, config)
    ELSE run_task_single_combination(task_id, config)

\* A sweep: the arguments of generate_config, the config and task count it
\* produced, how many task IDs have been run, the rows of all runs so far and
\* the outcome of the last run.
task_new(a) ==
    [args |-> a, pc |-> "new", config |-> NoConfig, total_tasks |-> 0,
     step |-> 0, task_id |-> 0, all_rows |-> <<>>, last |-> raised("none")]

\* The task ID run at a step: the array range 0..total_tasks-1 first, then
\* ExtraIds IDs above it, then ExtraIds negative IDs.
id_at(step, total_tasks) ==
    IF step < total_tasks + ExtraIds THEN step
    ELSE total_tasks + ExtraIds - 1 - step

task_step(s) ==
    LET task_id == id_at(s.step, s.total_tasks)
        out == run_single_task(task_id, s.config)
    IN  [s EXCEPT !.step = @ + 1, !.task_id = task_id,
                  !.all_rows = @ \o out.rows, !.last = out]

\* ------------------------------------------------- analyze/analyze_results
\* The columns a results file may have, and the most data rows explored.
Columns ==
    {"B", "r", "alpha", "p", "seed", "fullness", "fullness_mean",
     "fullness_std", "n_seeds", "time_avg_fullness"}
MaxRows == 2

\* load_results_from_csv on a file with the given header line and number of
\* data rows (all values well-formed numbers), before it has opened the file.
load_new(header, nrows) ==
    [header |-> header, nrows |-> nrows, pc |-> "open", is_aggregated |-> FALSE,
     warning |-> "none", records |-> <<>>, err |-> "none", returns |-> "none"]

\* Lines 22-44: peek at the first row and detect the format.
detect_step(s) ==
    IF s.nrows = 0
    THEN [s EXCEPT !.pc = "returned", !.warning = "empty", !.returns = "records"]
    ELSE IF "fullness_mean" \in s.header
    THEN [s EXCEPT !.pc = "rows", !.is_aggregated = TRUE]
    ELSE IF "seed" \in s.header
    THEN [s EXCEPT !.pc = "rows", !.is_aggregated = FALSE]
    ELSE [s EXCEPT !.pc = "rows", !.is_aggregated = FALSE,
                   !.warning = "assuming per-seed"]

\* The columns row[...] subscripts while a row is converted; a missing one
\* raises KeyError.
subscripted(is_aggregated) ==
    {"B", "r", "alpha", "p"}
        \cup (IF is_aggregated THEN {"fullness_mean", "n_seeds"}
              ELSE {"seed", "fullness"})

\* Lines 46-93: one row of the second pass is converted and appended.
row_step(s) ==
    IF subscripted(s.is_aggregated) \subseteq s.header
    THEN [s EXCEPT !.records = Append(@, [is_aggregated |-> s.is_aggregated])]
    ELSE [s EXCEPT !.pc = "failed", !.err = "KeyError"]

\* Lines 95-96: return records, is_aggregated.
return_step(s) == [s EXCEPT !.pc = "returned", !.returns = "records, is_aggregated"]

\* ------------------------------------------------------------------ state
VARIABLES
    sim,      \* one call of simulate() with seed=None, step by step
    runs,     \* two calls of simulate() in one process, batch by batch
    gen,      \* the state of the global generator the two calls share
    calls,    \* per call: the generator state before and after its prologue
    overlap,  \* whether one of the two calls started while the other was active
    task,     \* one sweep of tasks of the SLURM driver
    csv       \* one call of load_results_from_csv

vars == <<sim, runs, gen, calls, overlap, task, csv>>

RunIds == {1, 2}

\* The arguments explored for a single call.
ArgSet ==
    [B : 1..MaxB, r : 0..MaxR, total_insertions : 0..MaxT, method : MethodStrings,
     p : PSet, rounding : Roundings, seed : {NoSeed}]

\* The arguments explored for the two calls sharing the generator.
Seeds == {NoSeed, [given |-> TRUE, value |-> 1], [given |-> TRUE, value |-> 2]}
GenArgSet ==
    [B : {3}, r : {0, 1}, total_insertions : {3, 4}, method : {"deferred", "immediately"},
     p : {<<1, 2>>}, rounding : {"floor"}, seed : Seeds]
GenStates == {[stream |-> 0, pos |-> 0], [stream |-> 2, pos |-> 1]}

IdleArgs ==
    [B |-> 1, r |-> 1, total_insertions |-> 0, method |-> "deferred",
     p |-> <<1, 2>>, rounding |-> "floor", seed |-> NoSeed]
IdleTaskArgs ==
    [B |-> 4, method |-> "deferred", r_list |-> <<1>>, p_list |-> <<<<1, 2>>>>,
     seeds_count |-> 0, insertion_scale |-> "linear", base_insertions |-> 2,
     rounding |-> "floor", batch_by_r |-> NoFlag, batch_by_p |-> NoFlag,
     total_insertions |-> NoInt]
NoCall == [before |-> [stream |-> 0, pos |-> 0], after |-> [stream |-> 0, pos |-> 0]]

\* ----------------------------------------------- Spec: one call, seed=None
Init ==
    /\ sim \in {run_idle(a) : a \in ArgSet}
    /\ runs = [i \in RunIds |-> run_idle(IdleArgs)]
    /\ gen = [stream |-> 0, pos |-> 0]
    /\ calls = [i \in RunIds |-> NoCall]
    /\ overlap = FALSE
    /\ task = task_new(IdleTaskArgs)
    /\ csv = load_new({}, 0)

Enter ==
    /\ sim.pc = "call"
    /\ sim' = prologue(sim)
    /\ UNCHANGED <<runs, gen, calls, overlap, task, csv>>

SampleBlock ==
    /\ sim.pc = "loop"
    /\ sim.batch_idx < sim.num_batches
    /\ \E draw \in 0..(draw_range(sim.size_counts) - 1) :
          sim' = sample_step(sim, draw)
    /\ UNCHANGED <<runs, gen, calls, overlap, task, csv>>

RemoveOld ==
    /\ sim.pc = "remove"
    /\ sim' = remove_step(sim)
    /\ UNCHANGED <<runs, gen, calls, overlap, task, csv>>

\* One iteration of the loop of insert_deferred.
DeferredIter ==
    /\ sim.pc = "policy"
    /\ sim.args.method = "deferred"
    /\ ~sim.loc.done
    /\ sim' = iter_step(sim)
    /\ UNCHANGED <<runs, gen, calls, overlap, task, csv>>

\* One iteration of the loop of insert_immediately.
ImmediatelyIter ==
    /\ sim.pc = "policy"
    /\ sim.args.method = "immediately"
    /\ ~sim.loc.done
    /\ sim' = iter_step(sim)
    /\ UNCHANGED <<runs, gen, calls, overlap, task, csv>>

\* One iteration of the loop of insert_adaptive.
AdaptiveIter ==
    /\ sim.pc = "policy"
    /\ sim.args.method = "adaptive"
    /\ ~sim.loc.done
    /\ sim' = iter_step(sim)
    /\ UNCHANGED <<runs, gen, calls, overlap, task, csv>>

\* One iteration of the loop of insert_adaptive2.
Adaptive2Iter ==
    /\ sim.pc = "policy"
    /\ sim.args.method = "adaptive2"
    /\ ~sim.loc.done
    /\ sim' = iter_step(sim)
    /\ UNCHANGED <<runs, gen, calls, overlap, task, csv>>

Merge ==
    /\ sim.pc = "policy"
    /\ sim.loc.done
    /\ sim' = merge_step(sim)
    /\ UNCHANGED <<runs, gen, calls, overlap, task, csv>>

Finish ==
    /\ sim.pc = "loop"
    /\ sim.batch_idx >= sim.num_batches
    /\ sim' = finish_step(sim)
    /\ UNCHANGED <<runs, gen, calls, overlap, task, csv>>

Next ==
    \/ Enter
    \/ SampleBlock
    \/ RemoveOld
    \/ DeferredIter
    \/ ImmediatelyIter
    \/ AdaptiveIter
    \/ Adaptive2Iter
    \/ Merge
    \/ Finish

Spec == Init /\ [][Next]_vars

\* The same call under the scheduling of a single-threaded interpreter: while
\* the call has a next step, it takes it.
SpecFair == Init /\ [][Next]_vars /\ WF_vars(Next)

\* ------------------ SpecGen: two calls in one process, one global generator
InitGen ==
    /\ sim = run_idle(IdleArgs)
    /\ runs \in [RunIds -> {run_idle(a) : a \in GenArgSet}]
    /\ gen \in GenStates
    /\ calls = [i \in RunIds |-> NoCall]
    /\ overlap = FALSE
    /\ task = task_new(IdleTaskArgs)
    /\ csv = load_new({}, 0)

\* Call i enters simulate(): the seeding and the prologue.
Call(i) ==
    /\ runs[i].pc = "call"
    /\ runs' = [runs EXCEPT ![i] = gen_step(runs[i], gen)[1]]
    /\ gen' = gen_step(runs[i], gen)[2]
    /\ calls' = [calls EXCEPT ![i] = [before |-> gen, after |-> gen']]
    /\ overlap' = (overlap \/ \E j \in RunIds \ {i} : runs[j].pc = "loop")
    /\ UNCHANGED <<sim, task, csv>>

\* Call i executes one batch of its loop.
Batch(i) ==
    /\ runs[i].pc = "loop"
    /\ runs[i].batch_idx < runs[i].num_batches
    /\ runs' = [runs EXCEPT ![i] = gen_step(runs[i], gen)[1]]
    /\ gen' = gen_step(runs[i], gen)[2]
    /\ UNCHANGED <<sim, calls, overlap, task, csv>>

\* Call i computes its final statistics and returns.
Return(i) ==
    /\ runs[i].pc = "loop"
    /\ runs[i].batch_idx >= runs[i].num_batches
    /\ runs' = [runs EXCEPT ![i] = gen_step(runs[i], gen)[1]]
    /\ gen' = gen_step(runs[i], gen)[2]
    /\ UNCHANGED <<sim, calls, overlap, task, csv>>

NextGen ==
    \/ \E i \in RunIds : Call(i)
    \/ \E i \in RunIds : Batch(i)
    \/ \E i \in RunIds : Return(i)

SpecGen == InitGen /\ [][NextGen]_vars

\* ------------------------------------------- SpecTask: one sweep of tasks
\* The arguments of generate_config explored: r_list = [1..n], p_list of n
\* ratios i/(n+1), the batching flags given or left to their defaults.
TaskArgSet ==
    [B : {4}, method : {"deferred"},
     r_list : {[i \in 1..n |-> i] : n \in 1..MaxRList},
     p_list : {[i \in 1..n |-> <<i, n + 1>>] : n \in 1..MaxPList},
     seeds_count : 0..MaxSeeds,
     insertion_scale : {"sqrt", "linear", "fixed"}, base_insertions : {2, 3},
     rounding : {"floor"},
     batch_by_r : {NoFlag, Given(TRUE), Given(FALSE)},
     batch_by_p : {NoFlag, Given(TRUE), Given(FALSE)},
     total_insertions : {NoInt, Given(0), Given(5)}]

InitTask ==
    /\ sim = run_idle(IdleArgs)
    /\ runs = [i \in RunIds |-> run_idle(IdleArgs)]
    /\ gen = [stream |-> 0, pos |-> 0]
    /\ calls = [i \in RunIds |-> NoCall]
    /\ overlap = FALSE
    /\ task \in {task_new(a) : a \in TaskArgSet}
    /\ csv = load_new({}, 0)

GenerateConfig ==
    /\ task.pc = "new"
    /\ LET g == generate_config(task.args)
       IN  task' = [task EXCEPT !.pc = IF g.err = "none" THEN "ready" ELSE "failed",
                               !.config = g.config,
                               !.total_tasks = g.total_tasks,
                               !.last = raised(g.err)]
    /\ UNCHANGED <<sim, runs, gen, calls, overlap, csv>>

\* The run command reads a config file that generate_config did not write.
LoadConfig ==
    /\ task.pc = "new"
    /\ LET g == load_config(task.args)
       IN  task' = [task EXCEPT !.pc = "ready",
                               !.config = g.config,
                               !.total_tasks = g.total_tasks,
                               !.last = raised(g.err)]
    /\ UNCHANGED <<sim, runs, gen, calls, overlap, csv>>

\* run_single_task on the next task ID, dispatched to run_task_batch_by_r.
RunTaskBatchByR ==
    /\ task.pc = "ready"
    /\ task.step < task.total_tasks + 2 * ExtraIds
    /\ mode_of(task.config) = "batch_by_r"
    /\ task' = task_step(task)
    /\ UNCHANGED <<sim, runs, gen, calls, overlap, csv>>

\* run_single_task on the next task ID, dispatched to run_task_batch_by_p.
RunTaskBatchByP ==
    /\ task.pc = "ready"
    /\ task.step < task.total_tasks + 2 * ExtraIds
    /\ mode_of(task.config) = "batch_by_p"
    /\ task' = task_step(task)
    /\ UNCHANGED <<sim, runs, gen, calls, overlap, csv>>

\* run_single_task on the next task ID, dispatched to
\* run_task_single_combination.
RunTaskSingleCombination ==
    /\ task.pc = "ready"
    /\ task.step < task.total_tasks + 2 * ExtraIds
    /\ mode_of(task.config) = "single"
    /\ task' = task_step(task)
    /\ UNCHANGED <<sim, runs, gen, calls, overlap, csv>>

NextTask ==
    \/ GenerateConfig
    \/ LoadConfig
    \/ RunTaskBatchByR
    \/ RunTaskBatchByP
    \/ RunTaskSingleCombination

SpecTask == InitTask /\ [][NextTask]_vars

\* ------------------------------- SpecCsv: one call of load_results_from_csv
InitCsv ==
    /\ sim = run_idle(IdleArgs)
    /\ runs = [i \in RunIds |-> run_idle(IdleArgs)]
    /\ gen = [stream |-> 0, pos |-> 0]
    /\ calls = [i \in RunIds |-> NoCall]
    /\ overlap = FALSE
    /\ task = task_new(IdleTaskArgs)
    /\ csv \in {load_new(h, n) : h \in SUBSET Columns \ {{}}, n \in 0..MaxRows}

DetectFormat ==
    /\ csv.pc = "open"
    /\ csv' = detect_step(csv)
    /\ UNCHANGED <<sim, runs, gen, calls, overlap, task>>

ParseRow ==
    /\ csv.pc = "rows"
    /\ Len(csv.records) < csv.nrows
    /\ csv' = row_step(csv)
    /\ UNCHANGED <<sim, runs, gen, calls, overlap, task>>

ReturnRecords ==
    /\ csv.pc = "rows"
    /\ Len(csv.records) = csv.nrows
    /\ csv' = return_step(csv)
    /\ UNCHANGED <<sim, runs, gen, calls, overlap, task>>

NextCsv ==
    \/ DetectFormat
    \/ ParseRow
    \/ ReturnRecords

SpecCsv == InitCsv /\ [][NextCsv]_vars

\* ================================================================= claims

\* C1. Element conservation: after every completed batch the histogram holds
\* exactly the elements inserted so far (sum of size * count = batches done
\* * r), and every policy call returns occupancies that sum to the sampled
\* occupancy plus r.
C1_ElementConservation ==
    /\ sim.pc \in {"loop", "done"} =>
          total_weight(sim.size_counts) = sim.batch_idx * sim.args.r
    /\ (sim.pc = "policy" /\ sim.loc.done) =>
          SeqSum(sim.loc.resulting_blocks) = sim.old_size + sim.args.r

\* C1 witness: a batch that cascaded into three or more blocks has been merged.
C1_Witness ==
    /\ sim.pc = "loop"
    /\ sim.batch_idx >= 2
    /\ num_blocks_of(sim.size_counts) >= 3
    /\ Len(sim.loc.resulting_blocks) >= 3

\* C2 as stated: for every valid parameterization (B >= 1, r >= 1,
\* total_insertions >= 0, one of the four methods) the returned final_fullness
\* and time_avg_fullness lie in (0, 1].
C2_FullnessInUnitInterval ==
    (sim.pc = "done" /\ sim.args.method \in Methods) =>
        /\ 0 < sim.result.final_fullness[1]
        /\ sim.result.final_fullness[1] <= sim.result.final_fullness[2]
        /\ 0 < sim.result.time_avg_fullness[1]
        /\ sim.result.time_avg_fullness[1] <= sim.result.time_avg_fullness[2]

\* C2 amended: a call that returns after at least one batch
\* (total_insertions >= r) returns both fullness values in (0, 1], with
\* 0 < num_batches * r <= B * final_blocks and 0 < elem_tally <=
\* capacity_tally; a call with total_insertions < r returns 0 for both.
C2_FullnessAfterABatch ==
    sim.pc = "done" =>
        IF sim.num_batches >= 1
        THEN /\ sim.result.final_fullness = <<sim.num_batches * sim.args.r,
                                              sim.args.B * sim.result.final_blocks>>
             /\ 0 < sim.num_batches * sim.args.r
             /\ sim.num_batches * sim.args.r <= sim.args.B * sim.result.final_blocks
             /\ sim.result.time_avg_fullness = <<sim.stats.elem_tally,
                                                 sim.stats.capacity_tally>>
             /\ 0 < sim.stats.elem_tally
             /\ sim.stats.elem_tally <= sim.stats.capacity_tally
        ELSE /\ sim.result.final_fullness[1] = 0
             /\ sim.result.time_avg_fullness[1] = 0

\* C2 witness: a run of several batches that split has returned.
C2_Witness ==
    /\ sim.pc = "done"
    /\ sim.num_batches >= 3
    /\ sim.result.final_blocks >= 3

\* C3. A call with a method string outside the four policies never returns a
\* result record: when it ends, it has failed with the invalid-policy error.
C3_UnknownMethodFails ==
    (sim.args.method \notin Methods /\ sim.args.r >= 1 /\ sim.pc \in {"done", "failed"}) =>
        (sim.pc = "failed" /\ sim.err = "ValueError" /\ ~sim.result.returned)

\* C4. Determinism: two calls of simulate(), one after the other, with the
\* same arguments and the same non-None seed return the same final histogram,
\* split count and final_fullness, whatever the generator's state before each.
C4_Determinism ==
    (/\ runs[1].pc = "done"
     /\ runs[2].pc = "done"
     /\ ~overlap
     /\ runs[1].args = runs[2].args
     /\ runs[1].args.seed.given) =>
        /\ runs[1].size_counts = runs[2].size_counts
        /\ runs[1].result.splits = runs[2].result.splits
        /\ runs[1].result.final_fullness = runs[2].result.final_fullness

\* C4 witness: two equal seeded calls, run one after the other from different generator
\* states, have both returned after a batch whose outcome depends on the draw.
C4_Witness ==
    /\ runs[1].pc = "done"
    /\ runs[2].pc = "done"
    /\ ~overlap
    /\ runs[1].args = runs[2].args
    /\ runs[1].args.seed.given
    /\ runs[1].num_batches >= 4
    /\ calls[1].before # calls[2].before

\* C5. Run isolation: when two seeded calls run to their return with their
\* batches interleaved, each returns the final histogram and final_fullness
\* it returns when it runs alone.
C5_RunIsolation ==
    \A i \in RunIds :
        (/\ \A j \in RunIds : runs[j].pc = "done" /\ runs[j].args.seed.given) =>
            LET alone == run_alone(run_idle(runs[i].args), [stream |-> 0, pos |-> 0])
            IN  /\ runs[i].size_counts = alone.size_counts
                /\ runs[i].result.final_fullness = alone.result.final_fullness

\* C6. split_size(n) returns (k, n - k) with 1 <= k <= n - 1 for every
\* n >= 2, every p and every rounding mode.
C6_SplitSizeBounds ==
    \A n \in 2..(MaxB + MaxR) :
        LET ss == split_size(n, sim.args.p, sim.args.rounding)
        IN  /\ 1 <= ss[1]
            /\ ss[1] <= n - 1
            /\ ss[2] = n - ss[1]
            /\ ss[2] >= 1

\* C6 witness: the deferred policy has split a block of at least two elements whose
\* unclamped split point p * n is outside 1..n-1.
C6_Witness ==
    /\ sim.pc = "policy"
    /\ sim.args.method = "deferred"
    /\ sim.loc.num_splits >= 1
    /\ sim.loc.current_size >= 2
    /\ split_size_noclamp(sim.loc.current_size, sim.args.p, sim.args.rounding)[1]
          \notin 1..(sim.loc.current_size - 1)

\* C7. simulate() executes exactly total_insertions // r batches; at the end
\* stats.inserts, the cumulative key counter and the reported
\* total_insertions equal num_batches * r: the remainder is never inserted.
C7_BatchCount ==
    /\ sim.pc \in {"loop", "remove", "policy"} =>
          sim.batch_idx <= sim.args.total_insertions \div sim.args.r
    /\ sim.pc = "done" =>
          LET num_batches == sim.args.total_insertions \div sim.args.r
          IN  /\ sim.batch_idx = num_batches
              /\ sim.stats.inserts = num_batches * sim.args.r
              /\ sim.total_keys = num_batches * sim.args.r
              /\ sim.result.total_insertions = num_batches * sim.args.r
              /\ sim.args.total_insertions - sim.result.total_insertions
                    = sim.args.total_insertions % sim.args.r

\* C7 witness: a run whose total_insertions is not a multiple of r has returned.
C7_Witness ==
    /\ sim.pc = "done"
    /\ sim.args.method \in Methods
    /\ sim.args.total_insertions % sim.args.r # 0
    /\ sim.batch_idx >= 2

\* C8. A call with r < 1 fails with the invalid-parameter error before any
\* state is created or changed: no histogram exists and the random generator
\* is in the state it had before the call.
C8_InvalidRLeavesNoTrace ==
    \A i \in RunIds :
        (runs[i].pc = "failed" /\ runs[i].args.r < 1) =>
            /\ runs[i].err = "AssertionError"
            /\ runs[i].size_counts = <<>>
            /\ calls[i].after = calls[i].before

\* C9 as stated: sample_block() returns an occupancy that is a key of the
\* histogram with count > 0 and an offset with 0 <= offset < occupancy.
C9_SampleInRange ==
    sim.pc = "remove" =>
        /\ sim.old_size \in dict_keys(sim.size_counts)
        /\ dict_get(sim.size_counts, sim.old_size) > 0
        /\ 0 <= sim.insert_pos
        /\ sim.insert_pos < sim.old_size

\* C9 amended: the occupancy is a key of the histogram with count > 0; the
\* offset satisfies 0 <= offset < occupancy when the occupancy is positive,
\* and is 0 when the sampled block is empty.
C9_SampleInRangeOrEmpty ==
    sim.pc = "remove" =>
        /\ sim.old_size \in dict_keys(sim.size_counts)
        /\ dict_get(sim.size_counts, sim.old_size) > 0
        /\ sim.old_size > 0 => (0 <= sim.insert_pos /\ sim.insert_pos < sim.old_size)
        /\ sim.old_size = 0 => sim.insert_pos = 0

\* C9 witness: a block was sampled from a histogram of several classes at an offset that
\* is not the draw itself.
C9_Witness ==
    /\ sim.pc = "remove"
    /\ Len(sim.size_counts) >= 2
    /\ sim.old_size >= 2
    /\ sim.insert_pos >= 1
    /\ dict_get(sim.size_counts, sim.old_size) >= 2

\* C10. The split count a policy returns is the number of splits it
\* performed: it returns split count + 1 occupancies, so after every batch
\* the histogram's block count is 1 + stats.splits (stated for B >= 2, where
\* every policy call returns).
C10_SplitCount ==
    sim.args.B >= 2 =>
        /\ (sim.pc = "policy" /\ sim.loc.done) =>
              Len(sim.loc.resulting_blocks) = sim.loc.num_splits + 1
        /\ sim.pc \in {"loop", "done"} =>
              num_blocks_of(sim.size_counts) = 1 + sim.stats.splits

\* C11: the deferred cascade terminates: for every B >= 1, r >= 1, p,
\* rounding mode and sampled occupancy, a call of insert_deferred that has
\* entered its loop eventually finds the work queue empty and returns.
C11_DeferredTerminates ==
    (sim.pc = "policy" /\ sim.args.method = "deferred" /\ ~sim.loc.done)
        ~> (sim.pc = "policy" /\ sim.loc.done /\ sim.loc.blocks_to_split = <<>>)

\* C12: a run under immediately, adaptive or adaptive2 always completes: for
\* every B >= 1 and r >= 1 every policy loop reaches its break and simulate()
\* reaches its return after num_batches batches.
C12_PositionalRunCompletes ==
    (sim.pc = "call" /\ sim.args.r >= 1
        /\ sim.args.method \in {"immediately", "adaptive", "adaptive2"})
        ~> (sim.pc = "done" /\ sim.batch_idx = sim.num_batches)

\* ------------------------------------------ comparisons of policy outcomes
\* How often v occurs in the list s, and equality of two lists as multisets.
Count(s, v) == Cardinality({i \in 1..Len(s) : s[i] = v})
SameMultiset(s, t) ==
    /\ Len(s) = Len(t)
    /\ \A i \in 1..Len(s) : Count(s, s[i]) = Count(t, s[i])

\* 1 - p
OneMinus(p) == <<p[2] - p[1], p[2]>>

\* The call the run is in, made again from its entry with ratio q and run to
\* its return: the locals at the return.
rerun_with(s, q) ==
    policy_run([s EXCEPT !.args.p = q,
                         !.loc = policy_enter(s.args.method, s.old_size,
                                              s.insert_pos, s.args.r, s.args.B)]).loc

\* The position-sensitive loop is about to split: the batch fills the block.
AtSplit(s) ==
    /\ s.pc = "policy"
    /\ s.args.method \in {"immediately", "adaptive", "adaptive2"}
    /\ ~s.loc.done
    /\ s.loc.elements_remaining >= s.args.B - s.loc.current_size

C14_GrowingChildLarger ==
    (sim.args.method = "adaptive" /\ AtSplit(sim) /\ sim.args.B >= 2)
    => LET lr == adaptive_split(sim.loc, sim.args.B, sim.args.p)
       IN  IF insert_end_pos_of(sim.loc, sim.args.B) <= lr[1]
           THEN lr[1] >= lr[2]
           ELSE lr[2] >= lr[1]

\* -------------------------------------------------------- the task sweep
\* The (seed, r, p) index triples of seeds x r_list x p_list.
Combos(config) ==
    (0..(Len(config.seeds) - 1)) \X (0..(Len(config.r_list) - 1))
        \X (0..(Len(config.p_list) - 1))

\* The indices the claimed formulas decode a task ID into; 0 stands for an
\* index the task loops over.
claimed_decoding(task_id, config) ==
    LET nr == Len(config.r_list)
        np == Len(config.p_list)
    IN  IF mode_of(config) = "batch_by_r"
        THEN [seed_idx |-> task_id \div nr, r_idx |-> task_id % nr, p_idx |-> 0]
        ELSE IF mode_of(config) = "batch_by_p"
        THEN [seed_idx |-> task_id \div np, r_idx |-> 0, p_idx |-> task_id % np]
        ELSE [seed_idx |-> task_id \div (nr * np),
              r_idx |-> (task_id % (nr * np)) \div np,
              p_idx |-> (task_id % (nr * np)) % np]

\* C15: task-ID decoding covers the sweep exactly once: in each of the three
\* modes, after run_single_task has run for every task_id in
\* 0..total_tasks-1, every (seed, r, p) combination of seeds x r_list x p_list
\* has been simulated exactly once, each row decoded by the mode's formula.
C15_SweepCoversOnce ==
    (task.pc = "ready" /\ task.step = task.total_tasks)
    => /\ \A t \in Combos(task.config) :
            Cardinality({i \in 1..Len(task.all_rows) :
                <<task.all_rows[i].seed_idx, task.all_rows[i].r_idx,
                  task.all_rows[i].p_idx>> = t}) = 1
       /\ Len(task.all_rows) = Cardinality(Combos(task.config))
       /\ \A i \in 1..Len(task.all_rows) :
            LET row == task.all_rows[i]
                d == claimed_decoding(row.task_id, task.config)
            IN  /\ row.task_id \in 0..(task.total_tasks - 1)
                /\ row.seed_idx = d.seed_idx
                /\ mode_of(task.config) # "batch_by_p" => row.r_idx = d.r_idx
                /\ mode_of(task.config) # "batch_by_r" => row.p_idx = d.p_idx
                /\ row.seed = task.config.seeds[row.seed_idx + 1]
                /\ row.r = task.config.r_list[row.r_idx + 1]
                /\ row.p = task.config.p_list[row.p_idx + 1]

\* C15 witness: a completed sweep over at least two seeds, two r and two p
\* in single-combination mode.
C15_Witness ==
    /\ task.pc = "ready" /\ task.step = task.total_tasks
    /\ mode_of(task.config) = "single"
    /\ Len(task.config.seeds) >= 2 /\ Len(task.config.r_list) >= 2
    /\ Len(task.config.p_list) >= 2
    /\ Len(task.all_rows) = task.total_tasks

\* C16: in every decoding mode, a task_id whose decoded seed_idx is
\* >= len(seeds) fails with the out-of-range error before any simulation is
\* run and without producing any result row.
C16_OutOfRangeFails ==
    (task.pc = "ready" /\ task.step > 0
        /\ claimed_decoding(task.task_id, task.config).seed_idx
              >= Len(task.config.seeds))
    => /\ task.last.err = "ValueError"
       /\ task.last.rows = <<>>
       /\ \A i \in 1..Len(task.all_rows) : task.all_rows[i].task_id # task.task_id

\* C16 witness: after a complete sweep with rows, the second task ID past the
\* array range has been rejected.
C16_Witness ==
    /\ task.pc = "ready"
    /\ task.task_id = task.total_tasks + 1
    /\ task.step = task.total_tasks + 2
    /\ task.last.err = "ValueError"
    /\ Len(task.all_rows) >= 4

\* ----------------------------------------------------- the results loader
\* C17: format detection is non-fatal: a row set is classified as aggregated
\* if a fullness_mean column is present, else per-seed if a seed column is
\* present; with neither column load_results_from_csv falls back to per-seed
\* with a warning and still returns the loaded records instead of failing.
C17_DetectionNonFatal ==
    /\ (csv.pc # "open" /\ csv.nrows > 0)
         => (csv.is_aggregated <=> "fullness_mean" \in csv.header)
    /\ (csv.pc \in {"returned", "failed"} /\ csv.nrows > 0
            /\ "fullness_mean" \notin csv.header /\ "seed" \notin csv.header
            /\ {"B", "r", "alpha", "p", "fullness"} \subseteq csv.header)
         => /\ csv.pc = "returned"
            /\ ~csv.is_aggregated
            /\ csv.warning = "assuming per-seed"
            /\ Len(csv.records) = csv.nrows

\* ------------------------------------------------------------- sampling
\* The orders in which the items of a histogram can be iterated.
Orders(sc) ==
    {[i \in 1..Len(sc) |-> sc[f[i]]] :
        f \in {g \in [1..Len(sc) -> 1..Len(sc)] :
                  \A i, j \in 1..Len(sc) : g[i] = g[j] => i = j}}

\* C18: weighted sampling is exact: for a histogram with total weight W > 0,
\* among the draw values 0..W-1 exactly `count` values map to each pair
\* (size, offset) with size a key of positive size and 0 <= offset < size, and
\* this holds for every iteration order of the histogram keys.
C18_SamplingExact ==
    (sim.pc = "loop" /\ total_weight(sim.size_counts) > 0)
    => \A o \in Orders(sim.size_counts) :
          \A i \in 1..Len(o) :
             \A offset \in 0..(o[i][1] - 1) :
                Cardinality({draw \in 0..(total_weight(o) - 1) :
                                sample_block(o, draw) = <<o[i][1], offset>>})
                    = o[i][2]

\* C18 witness: a block has been sampled at a positive offset from a
\* histogram with at least two occupancy classes, one of them holding
\* several blocks.
C18_Witness ==
    /\ sim.pc = "remove"
    /\ sim.insert_pos > 0
    /\ Len(sim.size_counts) >= 2
    /\ \E i \in 1..Len(sim.size_counts) :
          sim.size_counts[i][2] >= 2 /\ sim.size_counts[i][1] >= 2

\* ------------------------------------------------ reference insertions
\* Element-by-element insertion into a block of `size` elements at position
\* `pos`: each element grows the block by one and advances the position; the
\* moment the size reaches B the block is split with split_size, the other
\* child is emitted, and the insertion continues in the left child if the
\* position is <= the left size, otherwise in the right child with the
\* position rebased. Returns the list of resulting occupancies.
RECURSIVE insert_one_by_one(_, _, _, _, _, _, _)
insert_one_by_one(size, pos, remaining, B, p, rounding, emitted) ==
    IF remaining = 0 THEN Append(emitted, size)
    ELSE IF size + 1 < B
    THEN insert_one_by_one(size + 1, pos + 1, remaining - 1, B, p, rounding, emitted)
    ELSE LET ss == split_size(B, p, rounding)
         IN  IF pos + 1 <= ss[1]
             THEN insert_one_by_one(ss[1], pos + 1, remaining - 1, B, p, rounding,
                                    Append(emitted, ss[2]))
             ELSE insert_one_by_one(ss[2], pos + 1 - ss[1], remaining - 1, B, p,
                                    rounding, Append(emitted, ss[1]))

\* C19: insert_immediately is equivalent to element-by-element insertion: for
\* every B >= 2, occupancy < B, offset, r and p, the multiset of occupancies
\* it returns equals that of the element-by-element reference.
C19_ImmediatelyIsElementwise ==
    (sim.pc = "policy" /\ sim.loc.done /\ sim.args.method = "immediately"
        /\ sim.args.B >= 2)
    => SameMultiset(sim.loc.resulting_blocks,
                    insert_one_by_one(sim.old_size, sim.insert_pos, sim.args.r,
                                      sim.args.B, sim.args.p, sim.args.rounding, <<>>))

\* C19 witness: insert_immediately has returned after a batch larger than
\* the block's free space cascaded over two splits, into a block sampled at
\* a positive offset.
C19_Witness ==
    /\ sim.pc = "policy" /\ sim.loc.done /\ sim.args.method = "immediately"
    /\ sim.args.B >= 2
    /\ sim.insert_pos > 0
    /\ sim.loc.num_splits >= 2
    /\ Len(sim.loc.resulting_blocks) >= 3

\* insert_deferred with the work list processed last-in-first-out (pop()
\* instead of pop(0)), run from the locals l to its return.
RECURSIVE insert_deferred_lifo(_, _, _, _)
insert_deferred_lifo(l, B, p, rounding) ==
    IF l.done THEN l
    ELSE IF l.blocks_to_split = <<>> THEN [l EXCEPT !.done = TRUE]
    ELSE LET n == Len(l.blocks_to_split)
             current_size == l.blocks_to_split[n]
             rest == SubSeq(l.blocks_to_split, 1, n - 1)
         IN  IF current_size < B
             THEN insert_deferred_lifo(
                      [l EXCEPT !.current_size = current_size,
                                !.blocks_to_split = rest,
                                !.resulting_blocks = Append(@, current_size)],
                      B, p, rounding)
             ELSE LET ss == split_size(current_size, p, rounding)
                      queued == SelectSeq(<<ss[1], ss[2]>>, LAMBDA x : x >= B)
                      final == SelectSeq(<<ss[1], ss[2]>>, LAMBDA x : x < B)
                  IN  insert_deferred_lifo(
                          [l EXCEPT !.current_size = current_size,
                                    !.num_splits = @ + 1,
                                    !.blocks_to_split = rest \o queued,
                                    !.resulting_blocks = @ \o final],
                          B, p, rounding)

\* C20: queue order does not change the deferred outcome: for every B >= 2,
\* occupancy, r, p and rounding mode, processing the work list
\* first-in-first-out and last-in-first-out yields the same multiset of
\* resulting occupancies and the same split count.
C20_QueueOrderIrrelevant ==
    (sim.pc = "policy" /\ sim.loc.done /\ sim.args.method = "deferred"
        /\ sim.args.B >= 2)
    => LET lifo == insert_deferred_lifo(
                       insert_deferred_enter(sim.old_size, sim.args.r, sim.args.B),
                       sim.args.B, sim.args.p, sim.args.rounding)
       IN  /\ SameMultiset(sim.loc.resulting_blocks, lifo.resulting_blocks)
           /\ sim.loc.num_splits = lifo.num_splits

\* C20 witness: insert_deferred has returned from a cascade whose first split
\* queued two children of different sizes, so that pop(0) and pop() take
\* different blocks first.
C20_Witness ==
    /\ sim.pc = "policy" /\ sim.loc.done /\ sim.args.method = "deferred"
    /\ sim.args.B >= 2
    /\ LET ss == split_size(sim.old_size + sim.args.r, sim.args.p, sim.args.rounding)
       IN  ss[1] >= sim.args.B /\ ss[2] >= sim.args.B /\ ss[1] # ss[2]
    /\ sim.loc.num_splits >= 4

\* ------------------------------------------------------------ split events
\* The run is about to split a block: the deferred loop has a block >= B at
\* the head of its work list, or a position-sensitive loop fills its block.
SplitEvent(s) ==
    \/ /\ s.pc = "policy" /\ s.args.method = "deferred" /\ ~s.loc.done
       /\ s.loc.blocks_to_split # <<>>
       /\ Head(s.loc.blocks_to_split) >= s.args.B
    \/ AtSplit(s)

\* The size of the block that split event splits.
split_of(s) ==
    IF s.args.method = "deferred" THEN Head(s.loc.blocks_to_split) ELSE s.args.B

\* The two children the loop iteration produces at a split event, read off
\* the locals after the iteration: what it added to the work list and to
\* resulting_blocks, and for the position-sensitive loops the child it
\* continues in.
split_children(s) ==
    LET l == s.loc
        l2 == policy_iter(s.args.method, l, s.args.B, s.args.p, s.args.rounding)
        added == SubSeq(l2.resulting_blocks, Len(l.resulting_blocks) + 1,
                        Len(l2.resulting_blocks))
    IN  IF s.args.method = "deferred"
        THEN SubSeq(l2.blocks_to_split, Len(l.blocks_to_split),
                    Len(l2.blocks_to_split)) \o added
        ELSE IF l2.done THEN added
        ELSE Append(added, l2.current_size)

\* C21: all four policies size their splits with split_size under the
\* configured rounding mode: at every split of a block of size n the two child
\* sizes are {k, n-k}, where (k, n-k) is split_size(n) computed with the run's
\* p and rounding.
C21_SplitsUseSplitSize ==
    (SplitEvent(sim) /\ sim.args.B >= 2)
    => SameMultiset(split_children(sim),
                    split_size(split_of(sim), sim.args.p, sim.args.rounding))

\* ------------------------------------------------------------------ stats
\* The tallies after t batches, as far as they are determined by t alone.
TalliesAfter(s, t) ==
    /\ s.stats.inserts = t * s.args.r
    /\ 2 * s.stats.elem_tally = s.args.r * s.args.r * t * (t + 1)
    /\ s.stats.capacity_tally = s.args.B * s.stats.blocks_tally
    /\ s.stats.moves = 0

\* C22: the stats tallies follow the stated weights after every batch t
\* (1-based) with block count N_t after the merge: inserts = t*r, blocks_tally
\* grows by r*N_t at batch t (so it is r * sum of N_i for i <= t),
\* elem_tally = r*r*t*(t+1)/2 and capacity_tally = B * blocks_tally; no
\* counter ever decreases and stats.moves stays 0.
C22_StatsTallies ==
    [][/\ (sim.pc = "policy" /\ sim'.pc = "loop")
            => /\ TalliesAfter(sim', sim'.batch_idx)
               /\ sim'.batch_idx = sim.batch_idx + 1
               /\ sim'.stats.blocks_tally
                    = sim.stats.blocks_tally
                        + sim.args.r * num_blocks_of(sim'.size_counts)
       /\ sim.pc = "call" => sim.stats = Stats
       /\ sim.pc # "call"
            => /\ sim'.stats.inserts >= sim.stats.inserts
               /\ sim'.stats.splits >= sim.stats.splits
               /\ sim'.stats.moves >= sim.stats.moves
               /\ sim'.stats.blocks_tally >= sim.stats.blocks_tally
               /\ sim'.stats.elem_tally >= sim.stats.elem_tally
               /\ sim'.stats.capacity_tally >= sim.stats.capacity_tally]_vars

\* C22 witness: three batches have been merged, at least one of them with a
\* split, and the histogram holds several blocks.
C22_Witness ==
    /\ sim.pc = "loop"
    /\ sim.batch_idx >= 3
    /\ sim.stats.splits >= 1
    /\ num_blocks_of(sim.size_counts) >= 3
    /\ TalliesAfter(sim, sim.batch_idx)

\* ---------------------------------------------------------- task dispatch
\* The config sets neither batching flag: each is missing or false.
NeitherFlag(config) ==
    /\ ~(config.batch_by_r.given /\ config.batch_by_r.value)
    /\ ~(config.batch_by_p.given /\ config.batch_by_p.value)

\* A task ID of the array range has just been run.
RanInRange(s) ==
    /\ s.pc = "ready" /\ s.step >= 1
    /\ 0 <= s.task_id /\ s.task_id < s.total_tasks

\* C23: with neither batching flag set (both absent or false),
\* run_single_task decodes the task ID into one (seed, r, p) triple and
\* returns one result row, not a list of rows.
C23_NeitherFlagIsSingle ==
    (RanInRange(task) /\ NeitherFlag(task.config) /\ task.last.err = "none")
    => /\ task.last.shape = "dict"
       /\ Len(task.last.rows) = 1

\* C24: under insertion_scale 'linear' every simulate call of a task gets
\* total_insertions = r * base_insertions, and under 'fixed' exactly the
\* configured total_insertions, for every configured value >= 0 and in all
\* three decoding modes.
C24_InsertionScaling ==
    (task.pc = "ready" /\ task.step >= 1 /\ task.last.err = "none")
    => \A i \in 1..Len(task.last.rows) :
          LET row == task.last.rows[i]
          IN  /\ task.config.insertion_scale = "linear"
                   => row.total_insertions = row.r * task.config.base_insertions
              /\ (task.config.insertion_scale = "fixed"
                    /\ task.config.total_insertions.given)
                   => row.total_insertions = task.config.total_insertions.value

\* ------------------------------------------------------------- histogram
\* The occupancies a step can touch: the keys before and after it, the
\* sampled occupancy and the returned ones.
Touched(s, t) ==
    dict_keys(s.size_counts) \cup dict_keys(t.size_counts) \cup {s.old_size}
        \cup {s.loc.resulting_blocks[i] : i \in 1..Len(s.loc.resulting_blocks)}

\* C25: one batch changes the histogram only by decrementing the sampled
\* occupancy's count by one (at the removal) and incrementing by one the count
\* of each returned occupancy (at the merge); the count of every other
\* occupancy is unchanged by every step of the batch, and the merge returns at
\* least the block that was removed, so the total block count never decreases.
C25_BatchFrame ==
    [][/\ sim.pc = "remove"
            => /\ dict_get(sim.size_counts, sim.old_size) >= 1
               /\ \A k \in Touched(sim, sim') :
                     dict_get(sim'.size_counts, k)
                       = dict_get(sim.size_counts, k)
                           - (IF k = sim.old_size THEN 1 ELSE 0)
       /\ (sim.pc = "policy" /\ sim'.pc = "loop")
            => /\ \A k \in Touched(sim, sim') :
                     dict_get(sim'.size_counts, k)
                       = dict_get(sim.size_counts, k)
                           + Count(sim.loc.resulting_blocks, k)
               /\ num_blocks_of(sim'.size_counts)
                    >= num_blocks_of(sim.size_counts) + 1
       /\ (sim.pc \in {"loop", "policy"} /\ sim'.pc # "loop")
            => sim'.size_counts = sim.size_counts]_vars

\* C25 witness: a batch that sampled an occupancy present more than once and
\* returned two blocks has been merged into a histogram of several classes.
C25_Witness ==
    /\ sim.pc = "loop"
    /\ sim.batch_idx >= 2
    /\ Len(sim.loc.resulting_blocks) >= 2
    /\ sim.old_size \in dict_keys(sim.size_counts)
    /\ Len(sim.size_counts) >= 2

\* C26: for every B >= 2 and every policy, after every completed batch each
\* key of the histogram has count >= 1 and lies in 1..B-1: no block is stored
\* at full capacity B and no empty block exists once the first batch has been
\* applied.
C26_HistogramWellFormed ==
    (sim.pc = "loop" /\ sim.batch_idx >= 1 /\ sim.args.B >= 2)
    => \A i \in 1..Len(sim.size_counts) :
          /\ sim.size_counts[i][2] >= 1
          /\ sim.size_counts[i][1] >= 1
          /\ sim.size_counts[i][1] <= sim.args.B - 1

\* C26 witness: after a batch that split, the histogram of a run with B >= 3
\* holds a block one short of capacity and a block of one element.
C26_Witness ==
    /\ sim.pc = "loop"
    /\ sim.batch_idx >= 2
    /\ sim.args.B >= 3
    /\ sim.stats.splits >= 1
    /\ {1, sim.args.B - 1} \subseteq dict_keys(sim.size_counts)

\* ---------------------------------------------------------------- cursor
\* The call is at the top of `while True` of a position-sensitive policy.
AtLoopTop(s) ==
    /\ s.pc = "policy"
    /\ s.args.method \in {"immediately", "adaptive", "adaptive2"}
    /\ ~s.loc.done

\* C27: for B >= 2, at the start of every loop iteration of
\* insert_immediately, insert_adaptive and insert_adaptive2,
\* 0 <= current_pos <= current_size <= B-1 and elements_remaining >= 0, and
\* the insert_end_pos an iteration that fills the block computes lies in 0..B.
C27_CursorInvariant ==
    (AtLoopTop(sim) /\ sim.args.B >= 2)
    => /\ 0 <= sim.loc.current_pos
       /\ sim.loc.current_pos <= sim.loc.current_size
       /\ sim.loc.current_size <= sim.args.B - 1
       /\ sim.loc.elements_remaining >= 0
       /\ sim.loc.elements_remaining >= sim.args.B - sim.loc.current_size
            => /\ 0 <= insert_end_pos_of(sim.loc, sim.args.B)
               /\ insert_end_pos_of(sim.loc, sim.args.B) <= sim.args.B

\* C27 witness: a later iteration, after a split that moved the cursor into
\* a child, that fills the block again with the cursor off position 0.
C27_Witness ==
    /\ AtLoopTop(sim)
    /\ sim.args.B >= 3
    /\ sim.loc.num_splits >= 1
    /\ sim.loc.current_pos >= 1
    /\ sim.loc.current_pos < sim.loc.current_size
    /\ sim.loc.elements_remaining >= sim.args.B - sim.loc.current_size

\* --------------------------------------------------------- policy equality
\* The call the run is in, made again from its entry by policy m and run to
\* its return: the locals at the return.
rerun_as(s, m) ==
    policy_run([s EXCEPT !.args.method = m,
                         !.loc = policy_enter(m, s.old_size, s.insert_pos,
                                              s.args.r, s.args.B)]).loc

\* B is even, p = 1/2 and the rounding is floor, in a position-sensitive call.
EvenHalf(s) ==
    /\ s.pc = "policy"
    /\ s.args.method \in {"immediately", "adaptive", "adaptive2"}
    /\ s.args.B % 2 = 0
    /\ s.args.p = <<1, 2>>
    /\ s.args.rounding = "floor"

\* C28: with B even and p = 1/2 (floor rounding), for every sampled occupancy
\* below B, offset and r, insert_adaptive and insert_adaptive2 return the same
\* sequence of resulting occupancies and the same split count as
\* insert_immediately.
C28_AdaptiveEqualsImmediately ==
    EvenHalf(sim)
    => LET imm == rerun_as(sim, "immediately")
           ada == rerun_as(sim, "adaptive")
           ad2 == rerun_as(sim, "adaptive2")
       IN  /\ sim.old_size < sim.args.B
           /\ imm.done /\ ada.done /\ ad2.done
           /\ ada.resulting_blocks = imm.resulting_blocks
           /\ ad2.resulting_blocks = imm.resulting_blocks
           /\ ada.num_splits = imm.num_splits
           /\ ad2.num_splits = imm.num_splits
           /\ sim.loc.done
                => /\ sim.loc.resulting_blocks = imm.resulting_blocks
                   /\ sim.loc.num_splits = imm.num_splits

\* C28 witness: a call of adaptive2 with B = 4 and p = 1/2 that has returned
\* after at least two splits, from a sampled block with a non-zero offset.
C28_Witness ==
    /\ EvenHalf(sim)
    /\ sim.args.method = "adaptive2"
    /\ sim.args.B >= 4
    /\ sim.loc.done
    /\ sim.loc.num_splits >= 2
    /\ sim.insert_pos >= 1

\* C29: run_single_task accepts exactly the task IDs 0..total_tasks-1, with
\* total_tasks the count generate_config computes for the same batching mode:
\* every such ID decodes to in-range indices and runs, and every other integer
\* task ID, negative ones included, is rejected with the out-of-range error
\* rather than being mapped onto some seed.
C29_ExactlyArrayRange ==
    (task.pc = "ready" /\ task.step >= 1)
    => IF 0 <= task.task_id /\ task.task_id < task.total_tasks
       THEN /\ task.last.err = "none"
            /\ task.last.rows # <<>>
            /\ \A i \in 1..Len(task.last.rows) :
                  LET row == task.last.rows[i]
                  IN  /\ 0 <= row.seed_idx /\ row.seed_idx < Len(task.config.seeds)
                      /\ 0 <= row.r_idx /\ row.r_idx < Len(task.config.r_list)
                      /\ 0 <= row.p_idx /\ row.p_idx < Len(task.config.p_list)
       ELSE /\ task.last.err = "ValueError"
            /\ task.last.rows = <<>>

\* ------------------------------------------------------------- k_H / k_L
\* insert_deferred(size, r) does not take its no-split return.
would_split(size, r, B) == ~insert_deferred_enter(size, r, B).done

\* The number of blocks of the histogram one more batch would split.
RECURSIVE at_risk_count(_, _, _)
at_risk_count(sc, r, B) ==
    IF sc = <<>> THEN 0
    ELSE (IF would_split(Head(sc)[1], r, B) THEN Head(sc)[2] ELSE 0)
         + at_risk_count(Tail(sc), r, B)

\* C30: for the deferred method, k_H and k_L partition the final blocks by
\* overflow risk: a block is counted in k_H if and only if inserting one more
\* batch of r elements into it would trigger a split under the deferred policy
\* (occupancy + r >= B); k_L counts all remaining blocks, and the high and low
\* counts add up to final_blocks.
C30_HighCountIsOverflowRisk ==
    (sim.pc = "done" /\ sim.args.method = "deferred")
    => /\ sim.result.high_count = at_risk_count(sim.size_counts, sim.args.r, sim.args.B)
       /\ 0 <= sim.result.high_count
       /\ sim.result.high_count <= sim.result.final_blocks

====
